---- MODULE Spec2Model ----
(***************************************************************************)
(* A model of LL1Parser (src/LL1Parser.py): read_grammar, the FIRST and    *)
(* FOLLOW fixed-point loops, build_parse_table and the stack machine of    *)
(* parse_input, driven in the order main() calls them.                     *)
(***************************************************************************)
EXTENDS Integers, Sequences, FiniteSets, TLC

\* ------------------------------------------------------------------ symbols
EPS == "eps"     \* the empty marker, 'ε' in the source
END == "$"       \* the end-of-input marker

\* ------------------------------------------------------------------ bounds
MaxProds == 2    \* productions in a generated grammar file
MaxInput == 2    \* tokens in a typed input string
MaxSent == 3     \* symbols in a sentential form of a derivation
MaxStack == 7    \* stack height up to which the parser loop is followed
MaxSteps == 24   \* loop iterations up to which the parser loop is followed

\* ------------------------------------------------------------------ inputs
\* names used in generated grammar files; "A" is a non-terminal when some
\* line has it as its head and a terminal otherwise (lines 41-42, 58)
HeadPool == {"S", "A"}
SymPool == {"S", "A", "a"}
\* tokens a user types: a terminal, a name that may be foreign, the marker
TokenPool == {"a", "A", END}

SeqsUpTo(S, n) == UNION {[1..k -> S] : k \in 0..n}

\* production bodies as p.split() of line 34 yields them for a normalised
\* grammar: the single empty marker, or one or two symbols without it
Bodies == {<<EPS>>} \cup {<<x>> : x \in SymPool}
                   \cup {<<x, y>> : <<x, y>> \in SymPool \X SymPool}

\* a grammar file: one "Head -> body" rule per line, the first head is "S"
GeneratedFiles ==
    {f \in UNION {[1..n -> HeadPool \X Bodies] : n \in 1..MaxProds} : f[1][1] = "S"}

\* E -> T X, X -> + T X | eps, T -> F Y, Y -> * F Y | eps, F -> ( E ) | id
ExprFile ==
    << <<"E", <<"T", "X">> >>,
       <<"X", <<"+", "T", "X">> >>, <<"X", <<EPS>> >>,
       <<"T", <<"F", "Y">> >>,
       <<"Y", <<"*", "F", "Y">> >>, <<"Y", <<EPS>> >>,
       <<"F", <<"(", "E", ")">> >>, <<"F", <<"id">> >> >>

\* S -> a | a b
AmbiguousFile == << <<"S", <<"a">> >>, <<"S", <<"a", "b">> >> >>

\* S -> A b, A -> a | eps
OptionalFile ==
    << <<"S", <<"A", "b">> >>, <<"A", <<"a">> >>, <<"A", <<EPS>> >> >>

\* S -> A a, A -> a | eps
DanglingFile ==
    << <<"S", <<"A", "a">> >>, <<"A", <<"a">> >>, <<"A", <<EPS>> >> >>

\* S -> A B, A -> a A | eps, B -> A | eps
ChainFile ==
    << <<"S", <<"A", "B">> >>, <<"A", <<"a", "A">> >>, <<"A", <<EPS>> >>,
       <<"B", <<"A">> >>, <<"B", <<EPS>> >> >>

Files == GeneratedFiles
            \cup {ExprFile, AmbiguousFile, OptionalFile, DanglingFile, ChainFile}

\* the strings of the two parsing scenarios of the expression grammar
ScenarioInputs == { <<"id", "+", "id", "*", "id">>, <<"id", "+">> }

Inputs == SeqsUpTo(TokenPool, MaxInput) \cup ScenarioInputs

\* ------------------------------------------------------------------ state
VARIABLES
    pc,             \* where main() is: "start", "first", "follow", "table",
                    \* "menu", "parse"
    grammar,        \* self.grammar: non-terminal -> sequence of productions
    non_terminals,  \* self.non_terminals, in order of first appearance
    terminals,      \* self.terminals (membership is all the code uses)
    start_symbol,   \* self.start_symbol
    first_sets,     \* self.first_sets
    follow_sets,    \* self.follow_sets
    parse_table,    \* self.parse_table: <<A, t>> -> None or a production
    warnings,       \* the cells for which "Warning: Conflict" was printed
    changed,        \* the flag of the running fixed-point loop
    nt_idx,         \* position of the running loop in non_terminals
    prod_idx,       \* position of the running loop in grammar[non_terminal]
    stack,          \* parse_input: stack
    input_string,   \* parse_input: the tokens with '$' appended
    pointer,        \* parse_input: pointer (0-based)
    steps,          \* parse_input: steps
    accepted,       \* parse_input: accepted
    running,        \* parse_input: TRUE until the loop is left
    sentential,     \* the sentential form of the derivation being expanded
    generated,      \* TRUE when input_string was obtained by a derivation
    first_run1      \* what an earlier call of compute_first_sets returned

vars == <<pc, grammar, non_terminals, terminals, start_symbol, first_sets,
          follow_sets, parse_table, warnings, changed, nt_idx, prod_idx,
          stack, input_string, pointer, steps, accepted, running,
          sentential, generated, first_run1>>

analysisVars == <<first_sets, follow_sets, parse_table, warnings, changed,
                  nt_idx, prod_idx, first_run1>>
grammarVars == <<grammar, non_terminals, terminals, start_symbol>>
parseVars == <<stack, input_string, pointer, steps, accepted, running>>

EmptyMap == [x \in {} |-> {}]
None == <<>>                 \* an empty table cell; a filled one is <<p>>

\* ------------------------------------------------------------------ helpers
Range(s) == {s[i] : i \in DOMAIN s}

RECURSIVE Dedup(_)
\* the heads of a file in order of first appearance (lines 41-42)
Dedup(s) ==
    IF s = <<>> THEN <<>>
    ELSE LET r == Dedup(SubSeq(s, 1, Len(s) - 1))
             x == s[Len(s)]
         IN IF x \in Range(r) THEN r ELSE Append(r, x)

RECURSIVE ProdsOf(_, _)
\* the bodies of the lines whose head is nt, in file order (lines 36-39)
ProdsOf(f, nt) ==
    IF f = <<>> THEN <<>>
    ELSE LET r == ProdsOf(SubSeq(f, 1, Len(f) - 1), nt)
             l == f[Len(f)]
         IN IF l[1] = nt THEN Append(r, l[2]) ELSE r

\* _find_terminals: every body symbol that is neither the empty marker nor
\* a non-terminal, and the end marker
FindTerminals(g, nts) ==
    UNION {UNION {{s \in Range(g[nt][j]) : s # EPS /\ s \notin nts}
                  : j \in DOMAIN g[nt]} : nt \in DOMAIN g} \cup {END}

Init ==
    /\ pc = "start"
    /\ grammar = EmptyMap
    /\ non_terminals = <<>>
    /\ terminals = {}
    /\ start_symbol = "None"
    /\ first_sets = EmptyMap
    /\ follow_sets = EmptyMap
    /\ parse_table = EmptyMap
    /\ warnings = {}
    /\ changed = FALSE
    /\ nt_idx = 1
    /\ prod_idx = 1
    /\ stack = <<>>
    /\ input_string = <<>>
    /\ pointer = 0
    /\ steps = <<>>
    /\ accepted = FALSE
    /\ running = FALSE
    /\ sentential = <<>>
    /\ generated = FALSE
    /\ first_run1 = EmptyMap

\* ------------------------------------------------------------ read_grammar
\* a reset that copies the FOLLOW sets found on the object
FirstInitFromFollow(nts) ==
    [nt \in Range(nts) |-> IF nt \in DOMAIN follow_sets THEN follow_sets[nt] ELSE {}]

\* line 66: every FIRST set empty
FirstInit(nts) == [nt \in Range(nts) |-> {}]

\* self.non_terminals and self.grammar after the lines of file f
HeadsOf(f) == Dedup([i \in DOMAIN f |-> f[i][1]])
GrammarOf(f) == [nt \in Range(HeadsOf(f)) |-> ProdsOf(f, nt)]

\* read_grammar(file_path) on a file with at least one rule, then main()
\* calls compute_first_sets, whose lines 66-67 reset first_sets and changed
ReadGrammar ==
    /\ pc = "start"
    /\ \E f \in Files :
       LET nts == HeadsOf(f)
           g == GrammarOf(f)
       IN /\ non_terminals' = nts
          /\ grammar' = g
          /\ start_symbol' = nts[1]
          /\ terminals' = FindTerminals(g, Range(nts))
          /\ first_sets' = FirstInit(nts)
    /\ changed' = FALSE
    /\ nt_idx' = 1
    /\ prod_idx' = 1
    /\ pc' = "first"
    /\ UNCHANGED <<follow_sets, parse_table, warnings, sentential, generated,
                   first_run1>>
    /\ UNCHANGED parseVars

\* ------------------------------------------------------- FIRST of a sequence
RECURSIVE FirstFrom(_, _, _)
\* the loop of _compute_first_for_sequence from position i on
FirstFrom(sequence, i, fs) ==
    IF i > Len(sequence) THEN {}
    ELSE LET symbol == sequence[i] IN
         IF symbol = EPS THEN {EPS}
         ELSE IF symbol \in terminals THEN {symbol}
         ELSE LET symbol_first == IF symbol \in DOMAIN fs THEN fs[symbol] ELSE {} IN
              IF EPS \in symbol_first
              THEN (symbol_first \ {EPS}) \cup
                   (IF i = Len(sequence) THEN {EPS} ELSE FirstFrom(sequence, i + 1, fs))
              ELSE symbol_first

\* _compute_first_for_sequence(sequence) against the FIRST sets fs
FirstOfSequence(sequence, fs) == FirstFrom(sequence, 1, fs)

\* ------------------------------------------------------- the loops' cursor
CurNT == non_terminals[nt_idx]
CurProd == grammar[CurNT][prod_idx]

\* a pass that stops after the productions of the first non-terminal
LastProdOfFirst == prod_idx = Len(grammar[CurNT])

\* lines 70-71, 114-115, 146-147: the last production of the last non-terminal
LastProd == nt_idx = Len(non_terminals) /\ prod_idx = Len(grammar[CurNT])
\* the next (non_terminal, production) of "for non_terminal ... for production"
NextNtIdx == IF prod_idx < Len(grammar[CurNT]) THEN nt_idx ELSE nt_idx + 1
NextProdIdx == IF prod_idx < Len(grammar[CurNT]) THEN prod_idx + 1 ELSE 1

\* --------------------------------------------------------- compute_first_sets
\* a growth test that asks for any element at all: the loop never settles
FirstGrowsNonEmpty(first_set, old) == first_set # {}

\* a growth test that only fills a set that is still empty
FirstGrowsOnce(first_set, old) == old = {} /\ first_set # {}

\* line 74: the production's FIRST set brings something new
FirstGrows(first_set, old) == ~(first_set \subseteq old)

\* a FOLLOW initialisation that forgets the end marker
FollowInitUnseeded == [nt \in Range(non_terminals) |-> {}]

\* lines 108-109: every FOLLOW set empty, '$' added to the start symbol's
FollowInit ==
    [nt \in Range(non_terminals) |-> IF nt = start_symbol THEN {END} ELSE {}]

\* one production of one pass (lines 73-76); after the last production of a
\* pass the loop test of line 69 either starts the next pass or returns, and
\* main() goes on to compute_follow_sets (lines 108-110)
FirstStep ==
    /\ pc = "first"
    /\ LET first_set == FirstOfSequence(CurProd, first_sets)
           grows == FirstGrows(first_set, first_sets[CurNT])
           ch == changed \/ grows
       IN /\ first_sets' = IF grows
                           THEN [first_sets EXCEPT ![CurNT] = @ \cup first_set]
                           ELSE first_sets
          /\ IF ~LastProd
             THEN /\ nt_idx' = NextNtIdx
                  /\ prod_idx' = NextProdIdx
                  /\ changed' = ch
                  /\ pc' = "first"
                  /\ UNCHANGED follow_sets
             ELSE /\ nt_idx' = 1
                  /\ prod_idx' = 1
                  /\ changed' = FALSE
                  /\ IF ch
                     THEN pc' = "first" /\ UNCHANGED follow_sets
                     ELSE /\ pc' = "follow"
                          /\ follow_sets' = FollowInit
    /\ UNCHANGED <<parse_table, warnings, sentential, generated, first_run1>>
    /\ UNCHANGED grammarVars
    /\ UNCHANGED parseVars

\* compute_first_sets called once more on the same object, right after its
\* first call returned: lines 66-67 build fresh sets, the dict returned by
\* the first call stays with the caller
Rerun ==
    /\ pc = "follow"
    /\ first_run1 = EmptyMap
    /\ nt_idx = 1 /\ prod_idx = 1 /\ follow_sets = FollowInit
    /\ first_run1' = first_sets
    /\ first_sets' = FirstInit(non_terminals)
    /\ changed' = FALSE
    /\ pc' = "first"
    /\ UNCHANGED <<follow_sets, parse_table, warnings, nt_idx, prod_idx,
                   sentential, generated>>
    /\ UNCHANGED grammarVars
    /\ UNCHANGED parseVars

\* an update test that lets a FOLLOW set grow only while it is empty
FollowGrowsFromEmpty(new_follows, old) == old = {} /\ new_follows # {}

\* -------------------------------------------------------- compute_follow_sets
\* line 124 and line 130: the set to add brings something new
FollowGrows(new_follows, old) == ~(new_follows \subseteq old)

\* a Rule 2 that forgets the last symbol of a production
Rule2OnlyNullable(first_remainder, i, production) == EPS \in first_remainder

\* line 129: Rule 2 applies to the symbol at position i of the production
Rule2Applies(first_remainder, i, production) ==
    EPS \in first_remainder \/ i = Len(production)

\* a Rule 1 that passes the empty marker on
NewFollowsKeepEps(first_remainder) == first_remainder

\* line 123: "new_follows = first_remainder - {'eps'}"
NewFollows(first_remainder) == first_remainder \ {EPS}

RECURSIVE FollowScan(_, _, _, _, _)
\* "for i, symbol in enumerate(production)" from position i on (lines
\* 116-132), updating the FOLLOW sets fs in place; yields <<fs, changed>>
FollowScan(production, i, non_terminal, fs, ch) ==
    IF i > Len(production) THEN <<fs, ch>>
    ELSE LET symbol == production[i] IN
         IF symbol \notin Range(non_terminals)
         THEN FollowScan(production, i + 1, non_terminal, fs, ch)
         ELSE LET remainder == SubSeq(production, i + 1, Len(production))
                  first_remainder == FirstOfSequence(remainder, first_sets)
                  new_follows == NewFollows(first_remainder)
                  g1 == FollowGrows(new_follows, fs[symbol])
                  fs1 == IF g1 THEN [fs EXCEPT ![symbol] = @ \cup new_follows]
                         ELSE fs
                  g2 == /\ Rule2Applies(first_remainder, i, production)
                        /\ FollowGrows(fs1[non_terminal], fs1[symbol])
                  fs2 == IF g2 THEN [fs1 EXCEPT ![symbol] = @ \cup fs1[non_terminal]]
                         ELSE fs1
              IN FollowScan(production, i + 1, non_terminal, fs2, ch \/ g1 \/ g2)

\* one production of one pass (lines 115-132); after the last production of
\* a pass the loop test of line 112 either starts the next pass or returns,
\* and main() goes on to build_parse_table (lines 138-143)
FollowStep ==
    /\ pc = "follow"
    /\ LET r == FollowScan(CurProd, 1, CurNT, follow_sets, changed)
       IN /\ follow_sets' = r[1]
          /\ IF ~LastProd
             THEN /\ nt_idx' = NextNtIdx
                  /\ prod_idx' = NextProdIdx
                  /\ changed' = r[2]
                  /\ pc' = "follow"
                  /\ UNCHANGED parse_table
             ELSE /\ nt_idx' = 1
                  /\ prod_idx' = 1
                  /\ changed' = FALSE
                  /\ IF r[2]
                     THEN pc' = "follow" /\ UNCHANGED parse_table
                     ELSE /\ pc' = "table"
                          /\ parse_table' =
                                [c \in Range(non_terminals) \X terminals |-> None]
    /\ UNCHANGED <<first_sets, warnings, sentential, generated, first_run1>>
    /\ UNCHANGED grammarVars
    /\ UNCHANGED parseVars

\* ---------------------------------------------------------- build_parse_table
\* a build that never looks at the cell before it assigns
CellFilledNever(cell) == FALSE

\* lines 152 and 158: the cell already holds a production
CellFilled(cell) == cell # None

\* a table that keeps the production assigned first
AssignCellKeepFirst(cell, production) ==
    IF cell = None THEN <<production>> ELSE cell

\* lines 154 and 160: the cell's content after the assignment
AssignCell(cell, production) == <<production>>

\* the terminals of lines 150-151 and of lines 156-157
FirstTargets(first_alpha) == first_alpha \ {EPS}

\* a build that fills the FOLLOW columns for every production
FollowTargetsAlways(first_alpha, non_terminal) == follow_sets[non_terminal]

\* a build that takes the FOLLOW columns from the start symbol's set
FollowTargetsOfStart(first_alpha, non_terminal) ==
    IF EPS \in first_alpha THEN follow_sets[start_symbol] ELSE {}

FollowTargets(first_alpha, non_terminal) ==
    IF EPS \in first_alpha THEN follow_sets[non_terminal] ELSE {}

\* the table after "self.parse_table[(non_terminal, t)] = production" for
\* every t of targets; assigning to a key the dictionary lacks adds the key
AssignAll(table, non_terminal, targets, production) ==
    [c \in DOMAIN table \cup {<<non_terminal, t>> : t \in targets} |->
        IF c[1] = non_terminal /\ c[2] \in targets
        THEN AssignCell(IF c \in DOMAIN table THEN table[c] ELSE None, production)
        ELSE table[c]]

\* the cells of targets for which the warning of lines 153/159 is printed
Conflicts(table, non_terminal, targets) ==
    {<<non_terminal, t>> : t \in {t \in targets : CellFilled(table[<<non_terminal, t>>])}}

\* one production of the fill loop (lines 147-160); after the last one
\* build_parse_table returns and main() shows the menu
TableStep ==
    /\ pc = "table"
    /\ LET first_alpha == FirstOfSequence(CurProd, first_sets)
           t1 == FirstTargets(first_alpha)
           table1 == AssignAll(parse_table, CurNT, t1, CurProd)
           t2 == FollowTargets(first_alpha, CurNT)
       IN /\ parse_table' = AssignAll(table1, CurNT, t2, CurProd)
          /\ warnings' = warnings \cup Conflicts(parse_table, CurNT, t1)
                                  \cup Conflicts(table1, CurNT, t2)
    /\ IF ~LastProd
       THEN /\ nt_idx' = NextNtIdx
            /\ prod_idx' = NextProdIdx
            /\ pc' = "table"
       ELSE /\ nt_idx' = 1
            /\ prod_idx' = 1
            /\ pc' = "menu"
    /\ UNCHANGED <<first_sets, follow_sets, changed, sentential, generated,
                   first_run1>>
    /\ UNCHANGED grammarVars
    /\ UNCHANGED parseVars

\* ------------------------------------------------------------------ parse_input
\* a token list without the end marker appended
WithEndMissing(tokens) == tokens

\* lines 167-168: the split input with the end marker appended
WithEnd(tokens) == Append(tokens, END)

\* lines 166-171: menu option 4 with the typed tokens
BeginParse(tokens, gen) ==
    /\ stack' = <<END, start_symbol>>
    /\ input_string' = WithEnd(tokens)
    /\ pointer' = 0
    /\ steps' = <<>>
    /\ accepted' = FALSE
    /\ running' = TRUE
    /\ generated' = gen
    /\ sentential' = <<>>
    /\ pc' = "parse"
    /\ UNCHANGED analysisVars
    /\ UNCHANGED grammarVars

StartParse ==
    /\ pc = "menu"
    /\ \E tokens \in Inputs : BeginParse(tokens, FALSE)

\* a step record whose stack snapshot is taken after the pop
StepAfterPop(kind, top, cur, production) ==
    [stack |-> SubSeq(stack, 1, Len(stack) - 1),
     input |-> SubSeq(input_string, pointer + 1, Len(input_string)),
     action |-> [kind |-> kind, top |-> top, cur |-> cur, production |-> production]]

\* the step record of lines 177-181 with its action filled in
Step(kind, top, cur, production) ==
    [stack |-> stack,
     input |-> SubSeq(input_string, pointer + 1, Len(input_string)),
     action |-> [kind |-> kind, top |-> top, cur |-> cur, production |-> production]]

\* line 198: self.parse_table.get((top, current_input), None)
Lookup(top, current_input) ==
    IF <<top, current_input>> \in DOMAIN parse_table
    THEN parse_table[<<top, current_input>>]
    ELSE None

RECURSIVE Reversed(_)
Reversed(s) == IF s = <<>> THEN <<>> ELSE Append(Reversed(Tail(s)), Head(s))

\* a push of the production left to right: its last symbol ends on top
ApplyRuleInOrder(stk, production) ==
    LET popped == SubSeq(stk, 1, Len(stk) - 1)
    IN IF production # <<EPS>> THEN popped \o production ELSE popped

\* a push that does not spare the empty-marker production
ApplyRulePushEps(stk, production) ==
    SubSeq(stk, 1, Len(stk) - 1) \o Reversed(production)

\* lines 200-204: pop the non-terminal, push the production in reverse
\* order unless it is the empty-marker production
ApplyRule(stk, production) ==
    LET popped == SubSeq(stk, 1, Len(stk) - 1)
    IN IF production # <<EPS>> THEN popped \o Reversed(production) ELSE popped

\* a Match that leaves the pointer where it is
AdvanceStay(p) == p

\* line 191: "pointer += 1"
Advance(p) == p + 1

\* one iteration of the loop of lines 173-211
ParseStep ==
    /\ pc = "parse"
    /\ running
    /\ Len(stack) > 0
    /\ Len(stack) <= MaxStack
    /\ Len(steps) < MaxSteps
    /\ LET top == stack[Len(stack)]
           current_input == input_string[pointer + 1]
       IN IF top = END /\ current_input = END
          THEN /\ steps' = Append(steps, Step("Accept", top, current_input, <<>>))
               /\ accepted' = TRUE
               /\ running' = FALSE
               /\ UNCHANGED <<stack, pointer>>
          ELSE IF top \in terminals
          THEN IF top = current_input
               THEN /\ stack' = SubSeq(stack, 1, Len(stack) - 1)
                    /\ pointer' = Advance(pointer)
                    /\ steps' = Append(steps, Step("Match", top, current_input, <<>>))
                    /\ UNCHANGED <<accepted, running>>
               ELSE /\ steps' = Append(steps, Step("Mismatch", top, current_input, <<>>))
                    /\ running' = FALSE
                    /\ UNCHANGED <<stack, pointer, accepted>>
          ELSE LET cell == Lookup(top, current_input)
               IN IF cell # None
                  THEN /\ stack' = ApplyRule(stack, cell[1])
                       /\ steps' = Append(steps, Step("Apply", top, current_input, cell[1]))
                       /\ UNCHANGED <<pointer, accepted, running>>
                  ELSE /\ steps' = Append(steps, Step("NoRule", top, current_input, <<>>))
                       /\ running' = FALSE
                       /\ UNCHANGED <<stack, pointer, accepted>>
    /\ UNCHANGED <<input_string, pc, sentential, generated>>
    /\ UNCHANGED analysisVars
    /\ UNCHANGED grammarVars

\* line 213 and lines 313-314: parse_input returns, the steps are displayed
\* and dropped, and the menu is shown again
Return ==
    /\ pc = "parse"
    /\ ~running
    /\ pc' = "menu"
    /\ stack' = <<>>
    /\ input_string' = <<>>
    /\ pointer' = 0
    /\ steps' = <<>>
    /\ accepted' = FALSE
    /\ generated' = FALSE
    /\ UNCHANGED <<running, sentential>>
    /\ UNCHANGED analysisVars
    /\ UNCHANGED grammarVars

\* ------------------------------------------------- the strings of the grammar
\* A user who types a string of the language: a leftmost derivation from the
\* start symbol, one production at a time, then the string is parsed.
IsNT(s) == s \in Range(non_terminals)
HasNT(form) == \E i \in DOMAIN form : IsNT(form[i])
LeftmostNT(form) == CHOOSE i \in DOMAIN form :
                        IsNT(form[i]) /\ \A j \in 1..(i - 1) : ~IsNT(form[j])

\* the form with the symbol at position i replaced by the production's body
Expand(form, i, production) ==
    SubSeq(form, 1, i - 1)
        \o (IF production = <<EPS>> THEN <<>> ELSE production)
        \o SubSeq(form, i + 1, Len(form))

BeginDerive ==
    /\ pc = "menu"
    /\ pc' = "derive"
    /\ sentential' = <<start_symbol>>
    /\ UNCHANGED generated
    /\ UNCHANGED analysisVars
    /\ UNCHANGED grammarVars
    /\ UNCHANGED parseVars

Derive ==
    /\ pc = "derive"
    /\ HasNT(sentential)
    /\ LET i == LeftmostNT(sentential)
       IN \E j \in DOMAIN grammar[sentential[i]] :
            LET form == Expand(sentential, i, grammar[sentential[i]][j])
            IN /\ Len(form) <= MaxSent
               /\ sentential' = form
    /\ UNCHANGED <<pc, generated>>
    /\ UNCHANGED analysisVars
    /\ UNCHANGED grammarVars
    /\ UNCHANGED parseVars

ParseGenerated ==
    /\ pc = "derive"
    /\ ~HasNT(sentential)
    /\ BeginParse(sentential, TRUE)

\* ------------------------------------------------------------ specification
\* main() up to the menu: lines 279-290
Analysis ==
    \/ ReadGrammar
    \/ FirstStep
    \/ FollowStep
    \/ TableStep

Next ==
    \/ Analysis
    \/ StartParse
    \/ ParseStep
    \/ Return
    \/ BeginDerive
    \/ Derive
    \/ ParseGenerated

Spec == Init /\ [][Next]_vars

\* compute_first_sets called twice on one grammar
Twice ==
    \/ ReadGrammar
    \/ FirstStep
    \/ Rerun

TwiceSpec == Init /\ [][Twice]_vars

\* the analysis alone; neither loop waits for anything, so a loop that can
\* take a step does take it
LiveSpec == Init /\ [][Analysis]_vars /\ WF_vars(FirstStep) /\ WF_vars(FollowStep)

\* ====================================================================
\* Properties
\* ====================================================================
\* build_parse_table has returned to main(), which shows the menu; nothing
\* after it writes the sets or the table
Built == pc = "menu"

NTs == Range(non_terminals)
Alts(A) == DOMAIN grammar[A]
\* FIRST of the j-th production of A against the final FIRST sets
FirstAlt(A, j) == FirstOfSequence(grammar[A][j], first_sets)
\* the terminals t for which the j-th production of A populates cell (A, t)
Populates(A, j) ==
    (FirstAlt(A, j) \ {EPS})
        \cup (IF EPS \in FirstAlt(A, j) THEN follow_sets[A] ELSE {})
\* the productions of A that populate cell (A, t), by position
Populating(A, t) == {j \in Alts(A) : t \in Populates(A, j)}
\* two different productions of A populate cell (A, t)
Contested(A, t) ==
    \E j, k \in Populating(A, t) : grammar[A][j] # grammar[A][k]
Min(S) == CHOOSE x \in S : \A y \in S : x <= y
Max(S) == CHOOSE x \in S : \A y \in S : x >= y

AmbiguousGrammar == [nt \in {"S"} |-> << <<"a">>, <<"a", "b">> >>]

C2_ConflictReported ==
    Built =>
        /\ \A A \in NTs : \A t \in terminals :
                Contested(A, t) => <<A, t>> \in warnings
        /\ grammar = AmbiguousGrammar => <<"S", "a">> \in warnings

\* the table of S -> a | a b is finished, with its conflict at (S, a)
C2_Witness ==
    Built /\ grammar = AmbiguousGrammar /\ Contested("S", "a")
          /\ <<"S", "a">> \in warnings

\* no FIRST/FIRST and no FIRST/FOLLOW overlap between two alternatives of
\* any non-terminal
NoOverlap ==
    \A A \in NTs : \A j, k \in Alts(A) :
        j # k =>
            /\ FirstAlt(A, j) \cap FirstAlt(A, k) = {}
            /\ EPS \in FirstAlt(A, j) => follow_sets[A] \cap FirstAlt(A, k) = {}

\* C3: for a grammar without FIRST/FIRST and FIRST/FOLLOW overlap
\* build_parse_table reports no conflict.
C3_NoOverlapNoConflict ==
    Built /\ NoOverlap => warnings = {}

\* the table of a grammar without overlap is finished, one of whose
\* non-terminals has a nullable alternative besides another alternative
C3_Witness ==
    /\ Built /\ NoOverlap
    /\ \E A \in NTs : \E j, k \in Alts(A) :
            j # k /\ EPS \in FirstAlt(A, j) /\ follow_sets[A] # {}
                  /\ FirstAlt(A, k) # {}

\* parse_input has left its loop and is about to return
Finished == pc = "parse" /\ ~running
LastStep == steps[Len(steps)]

\* C4: with a table built without conflict, a string obtained by expanding
\* productions from the start symbol is accepted.
C4_GeneratedAccepted ==
    Finished /\ generated /\ warnings = {} => accepted

\* a derived string of two tokens or more was parsed with a conflict-free
\* table and accepted
C4_Witness ==
    /\ Finished /\ generated /\ warnings = {} /\ accepted
    /\ Len(input_string) >= 3

ExprGrammar == GrammarOf(ExprFile)

\* C5: the FIRST and FOLLOW sets of the expression grammar, and no conflict.
C5_ExprSets ==
    Built /\ grammar = ExprGrammar =>
        /\ first_sets["F"] = {"(", "id"}
        /\ first_sets["T"] = first_sets["F"]
        /\ follow_sets["E"] = {")", END}
        /\ follow_sets["X"] = follow_sets["E"]
        /\ warnings = {}

\* the table of the expression grammar is finished
C5_Witness ==
    Built /\ grammar = ExprGrammar /\ parse_table[<<"X", END>>] = <<<<EPS>>>>

ExprParsed(tokens) ==
    Finished /\ grammar = ExprGrammar /\ input_string = Append(tokens, END)
NoMismatch == \A i \in DOMAIN steps : steps[i].action.kind # "Mismatch"
AcceptsSum ==
    ExprParsed(<<"id", "+", "id", "*", "id">>) =>
        accepted /\ LastStep.action.kind = "Accept" /\ NoMismatch
HaltsNoRule ==
    ExprParsed(<<"id", "+">>) => ~accepted /\ LastStep.action.kind = "NoRule"

\* C6 as stated: 'id + id * id' is accepted without a mismatch step, and
\* 'id +' halts in the no-applicable-rule state before the pointer reaches
\* the end marker.
C6_HaltsBeforeEnd ==
    /\ AcceptsSum
    /\ HaltsNoRule
    /\ ExprParsed(<<"id", "+">>) => input_string[pointer + 1] # END

\* C6 as amended: 'id + id * id' is accepted without a mismatch step, and
\* 'id +' halts in the no-applicable-rule state with both tokens matched and
\* the end marker as the current token: there is no rule for (T, $).
C6_HaltsAtEnd ==
    /\ AcceptsSum
    /\ HaltsNoRule
    /\ ExprParsed(<<"id", "+">>) =>
            /\ pointer = 2
            /\ input_string[pointer + 1] = END
            /\ LastStep.action.top = "T"
            /\ LastStep.action.cur = END

\* the run on 'id +' has halted
C6_Witness ==
    ExprParsed(<<"id", "+">>) /\ LastStep.action.kind = "NoRule"

\* the run on 'id + id * id' has halted
C6_SumParsed == ExprParsed(<<"id", "+", "id", "*", "id">>) /\ accepted

\* steps i < j expand the same non-terminal at the same input position and
\* the stack never went below its height at step i in between: the machine
\* is deterministic, so the steps from i to j repeat without end
Pumps(i, j) ==
    /\ i < j
    /\ steps[i].action.kind = "Apply" /\ steps[j].action.kind = "Apply"
    /\ steps[i].action.top = steps[j].action.top
    /\ steps[i].input = steps[j].input
    /\ \A k \in i..j : Len(steps[k].stack) >= Len(steps[i].stack)

\* C7: every run of parse_input terminates, in one of the three terminal
\* states. A run of this deterministic machine fails to terminate exactly
\* when it repeats the expansion of a non-terminal on the same input
\* position above the same stack, so termination is: no run does.
C7_ParseTerminates ==
    /\ \A i, j \in DOMAIN steps : ~Pumps(i, j)
    /\ Finished => LastStep.action.kind \in {"Accept", "Mismatch", "NoRule"}

\* C8: both fixed-point loops terminate; a step of either only adds
\* elements of the finite alphabet to the sets, and a loop returns only at
\* the end of a pass in which no set grew.
Alphabet == terminals \cup {EPS}
GrowsWithin(old, new) ==
    \A nt \in DOMAIN old : old[nt] \subseteq new[nt] /\ new[nt] \subseteq Alphabet
C8_FixpointsTerminate ==
    /\ (pc = "first") ~> (pc = "follow")
    /\ (pc = "follow") ~> (pc = "table")
    /\ [][/\ pc = "first" => GrowsWithin(first_sets, first_sets')
          /\ pc = "follow" => GrowsWithin(follow_sets, follow_sets')
          /\ pc = "first" /\ pc' = "follow" =>
                LastProd /\ ~changed /\ first_sets' = first_sets
          /\ pc = "follow" /\ pc' = "table" =>
                LastProd /\ ~changed /\ follow_sets' = follow_sets]_vars

\* both loops have returned after growing a FIRST and a FOLLOW set
C8_Witness ==
    /\ pc = "table"
    /\ \E nt \in NTs : Cardinality(first_sets[nt]) >= 2
    /\ \E nt \in NTs : nt # start_symbol /\ follow_sets[nt] # {}

\* C9: once compute_first_sets has returned, FIRST of every production of A
\* against the final sets is a subset of FIRST(A).
C9_FirstClosed ==
    pc \notin {"start", "first"} =>
        \A A \in NTs : \A j \in Alts(A) : FirstAlt(A, j) \subseteq first_sets[A]

\* compute_first_sets has returned a set with the empty marker and a
\* terminal in it
C9_Witness ==
    /\ pc = "follow"
    /\ \E A \in NTs : EPS \in first_sets[A] /\ Cardinality(first_sets[A]) >= 2

\* C10: from the initialisation of compute_follow_sets on, FOLLOW of the
\* start symbol contains the end marker.
C10_StartFollowHasEnd ==
    pc \notin {"start", "first"} => END \in follow_sets[start_symbol]

\* compute_follow_sets is in a pass in which a set has grown
C10_Witness ==
    /\ pc = "follow" /\ changed
    /\ Cardinality(follow_sets[start_symbol]) >= 2

\* C11: a second run of compute_first_sets on the same grammar returns the
\* FIRST sets the first run returned.
C11_SecondRunSame ==
    pc = "follow" /\ first_run1 # EmptyMap => first_sets = first_run1

\* the second run has returned sets with a terminal and the empty marker
C11_Witness ==
    /\ pc = "follow" /\ first_run1 # EmptyMap
    /\ \E A \in NTs : EPS \in first_sets[A] /\ Cardinality(first_sets[A]) >= 2

\* C12: the loops bound their iterations and stop with a fatal error when
\* the bound is exceeded. Whatever the bound, a run that repeats itself is
\* then cut off; here: before it has made MaxSteps iterations.
C12_IterationGuard ==
    pc = "parse" /\ running /\ (\E i, j \in DOMAIN steps : Pumps(i, j))
        => Len(steps) < MaxSteps

\* the remaining input at pointer p
Remaining(p) == SubSeq(input_string, p + 1, Len(input_string))

\* the stack and the remaining input a recorded step leads to, from the
\* step's own snapshots and action
StackAfter(step) ==
    LET below == SubSeq(step.stack, 1, Len(step.stack) - 1)
    IN CASE step.action.kind = "Match" -> below
         [] step.action.kind = "Apply" ->
                IF step.action.production = <<EPS>> THEN below
                ELSE below \o Reversed(step.action.production)
         [] OTHER -> step.stack
InputAfter(step) ==
    IF step.action.kind = "Match" THEN Tail(step.input) ELSE step.input

\* C13: every iteration of the parser loop appends exactly one Step, whose
\* snapshots are the stack and the remaining input before the transition;
\* the first Step shows the initial state, each later Step the state the
\* Step before it produced, and the machine is in the state the last Step
\* produced.
C13_StepsRecordBefore ==
    /\ [][pc = "parse" /\ pc' = "parse" /\ <<stack, pointer, steps, running>>
                                            # <<stack, pointer, steps, running>>'
            => /\ Len(steps') = Len(steps) + 1
               /\ SubSeq(steps', 1, Len(steps)) = steps
               /\ steps'[Len(steps')].stack = stack
               /\ steps'[Len(steps')].input = Remaining(pointer)]_vars
    /\ [](pc = "parse" =>
            \A i \in DOMAIN steps :
                /\ steps[i].stack = IF i = 1 THEN <<END, start_symbol>>
                                    ELSE StackAfter(steps[i - 1])
                /\ steps[i].input = IF i = 1 THEN input_string
                                    ELSE InputAfter(steps[i - 1]))
    /\ [](pc = "parse" /\ steps # <<>> =>
            /\ stack = StackAfter(LastStep)
            /\ Remaining(pointer) = InputAfter(LastStep))

\* a run has recorded a Match step, an Apply step of the empty-marker
\* production and an Apply step of a longer production, and has halted
C13_Witness ==
    /\ Finished
    /\ \E i, j, k \in DOMAIN steps :
        /\ steps[i].action.kind = "Match"
        /\ steps[j].action.kind = "Apply" /\ steps[j].action.production = <<EPS>>
        /\ steps[k].action.kind = "Apply" /\ Len(steps[k].action.production) >= 2

\* the transition the stated machine takes on stack top `top` and current
\* token `cur`
MachineKind(top, cur) ==
    IF top = END /\ cur = END THEN "Accept"
    ELSE IF top \in terminals
         THEN IF top = cur THEN "Match" ELSE "Mismatch"
         ELSE IF Lookup(top, cur) # None THEN "Apply" ELSE "NoRule"

\* C14: every iteration of the parser loop takes the stated machine's
\* transition for its stack top and current token: Match pops one symbol
\* and advances the pointer by one; Apply rule pops the non-terminal and
\* pushes the looked-up production in reverse, its leftmost symbol on top,
\* nothing for the empty-marker production, the pointer unchanged; Accept
\* and the two errors change neither the stack nor the pointer.
C14_MachineTransitions ==
    [][pc = "parse" /\ pc' = "parse" /\ steps' # steps =>
        LET n == Len(stack)
            top == stack[n]
            cur == input_string[pointer + 1]
            below == SubSeq(stack, 1, n - 1)
            act == steps'[Len(steps')].action
        IN /\ act.kind = MachineKind(top, cur)
           /\ CASE act.kind = "Match" ->
                     stack' = below /\ pointer' = pointer + 1
                [] act.kind = "Apply" ->
                     LET production == Lookup(top, cur)[1]
                     IN /\ act.production = production
                        /\ pointer' = pointer
                        /\ SubSeq(stack', 1, n - 1) = below
                        /\ IF production = <<EPS>> THEN stack' = below
                           ELSE /\ Len(stack') = n - 1 + Len(production)
                                /\ stack'[Len(stack')] = production[1]
                                /\ \A k \in 1..Len(production) :
                                      stack'[Len(stack') + 1 - k] = production[k]
                [] OTHER ->
                     stack' = stack /\ pointer' = pointer]_vars

\* an accepted run in which a production of two or more symbols was applied
\* and its leftmost symbol matched at once, and the empty-marker production
\* was applied as well
C14_Witness ==
    /\ Finished /\ accepted
    /\ \E i \in DOMAIN steps :
        /\ i < Len(steps)
        /\ steps[i].action.kind = "Apply"
        /\ Len(steps[i].action.production) >= 2
        /\ steps[i + 1].action.kind = "Match"
        /\ steps[i + 1].action.top = steps[i].action.production[1]
    /\ \E j \in DOMAIN steps :
        steps[j].action.kind = "Apply" /\ steps[j].action.production = <<EPS>>

\* the occurrences of non-terminals in production bodies: <<A, j, i>> is
\* position i of the j-th production of A
Occurrences ==
    {o \in UNION {UNION {{<<A, j, i>> : i \in DOMAIN grammar[A][j]}
                            : j \in Alts(A)} : A \in NTs} :
        grammar[o[1]][o[2]][o[3]] \in NTs}
\* FIRST of what follows occurrence o in its production
FirstBeta(o) ==
    LET production == grammar[o[1]][o[2]]
    IN FirstOfSequence(SubSeq(production, o[3] + 1, Len(production)), first_sets)
BetaEmpty(o) == o[3] = Len(grammar[o[1]][o[2]])
\* what the two rules add for occurrence o, given the sets fs
Rule1Adds(o) == FirstBeta(o) \ {EPS}
Rule2Adds(o, fs) ==
    IF EPS \in FirstBeta(o) \/ BetaEmpty(o) THEN fs[o[1]] ELSE {}
\* one simultaneous application of both rules to the occurrences occ
RoundOver(occ, fs) ==
    [B \in NTs |-> fs[B] \cup UNION {Rule1Adds(o) \cup Rule2Adds(o, fs) :
                        o \in {x \in occ : grammar[x[1]][x[2]][x[3]] = B}}]
RECURSIVE LeastOver(_, _)
\* the least sets above fs closed under both rules at the occurrences occ
LeastOver(occ, fs) ==
    IF RoundOver(occ, fs) = fs THEN fs ELSE LeastOver(occ, RoundOver(occ, fs))
\* the least sets above fs closed under both rules in every production
LeastAbove(fs) == LeastOver(Occurrences, fs)
\* the seed: '$' in FOLLOW(start), nothing else
FollowSeed == [B \in NTs |-> IF B = start_symbol THEN {END} ELSE {}]

\* C15: when compute_follow_sets has returned, for every production
\* A -> alpha B beta with B a non-terminal, FIRST(beta) without the empty
\* marker is inside FOLLOW(B), and FOLLOW(A) is inside FOLLOW(B) when
\* FIRST(beta) holds the empty marker or beta is empty; and the sets are
\* the least ones, seeded with '$' in FOLLOW(start), closed under both rules.
C15_FollowLeastClosed ==
    Built =>
        /\ \A o \in Occurrences :
            LET B == grammar[o[1]][o[2]][o[3]]
            IN /\ Rule1Adds(o) \subseteq follow_sets[B]
               /\ (EPS \in FirstBeta(o) \/ BetaEmpty(o))
                     => follow_sets[o[1]] \subseteq follow_sets[B]
        /\ follow_sets = LeastAbove(FollowSeed)

\* compute_follow_sets has returned for a grammar with a non-terminal that
\* is followed by a non-empty nullable remainder, so that both rules have
\* added to its FOLLOW set, and with one that ends a production
C15_Witness ==
    /\ Built
    /\ \E o \in Occurrences :
        /\ ~BetaEmpty(o)
        /\ EPS \in FirstBeta(o)
        /\ Rule1Adds(o) # {}
        /\ follow_sets[o[1]] # {}
    /\ \E o \in Occurrences : BetaEmpty(o) /\ follow_sets[o[1]] # {}

\* C16: in every state of compute_follow_sets and in its result, a FOLLOW
\* set holds only terminals of the grammar and the end marker, never the
\* empty marker, and a FIRST set holds only terminals of the grammar and
\* possibly the empty marker.
C16_SetsWellTyped ==
    pc \notin {"start", "first"} =>
        \A A \in NTs :
            /\ follow_sets[A] \subseteq terminals
            /\ EPS \notin follow_sets[A]
            /\ first_sets[A] \subseteq (terminals \ {END}) \cup {EPS}

\* compute_follow_sets is in the middle of a pass, a nullable non-terminal
\* is followed by another symbol in a production, and a FOLLOW set already
\* holds a terminal and the end marker
C16_Witness ==
    /\ pc = "follow" /\ changed
    /\ \E o \in Occurrences :
        ~BetaEmpty(o) /\ EPS \in FirstBeta(o)
    /\ \E A \in NTs : END \in follow_sets[A] /\ follow_sets[A] \ {END} # {}

RECURSIVE ReachFrom(_)
\* the non-terminals that occur in a sentential form derived from those in R
ReachFrom(R) ==
    LET more == R \cup {grammar[o[1]][o[2]][o[3]] : o \in {x \in Occurrences : x[1] \in R}}
    IN IF more = R THEN R ELSE ReachFrom(more)
\* the non-terminals reachable from the start symbol
Reachable == ReachFrom({start_symbol})
\* FOLLOW by derivations from the start symbol: a derivation from the start
\* symbol uses productions of reachable non-terminals only, so these are
\* the least sets closed under both rules in those productions
DerivedFollow == LeastOver({o \in Occurrences : o[1] \in Reachable}, FollowSeed)

\* C17 as stated: the FOLLOW sets returned are exactly the terminals (and
\* '$') that follow the non-terminal in a derivation from the start symbol,
\* with nothing that productions of unreachable non-terminals contribute.
C17_FollowFromStartOnly ==
    Built => follow_sets = DerivedFollow

\* C17 as amended: the FOLLOW sets returned hold every terminal (and '$')
\* that follows the non-terminal in a derivation from the start symbol, and
\* hold exactly those when every non-terminal is reachable from the start
\* symbol; productions of unreachable non-terminals are scanned as well.
C17_FollowOverAllProductions ==
    Built =>
        /\ \A A \in NTs : DerivedFollow[A] \subseteq follow_sets[A]
        /\ Reachable = NTs => follow_sets = DerivedFollow

\* compute_follow_sets has returned for a grammar with an unreachable
\* non-terminal whose production put a terminal into the FOLLOW set of a
\* reachable one
C17_Witness ==
    /\ Built
    /\ \E A \in Reachable : follow_sets[A] \ DerivedFollow[A] # {}
    /\ \E A \in Reachable : DerivedFollow[A] # {}

\* C18: in the finished table every non-empty cell (A, t) holds a
\* production p of A with t in FIRST(p) and t not the empty marker, or with
\* the empty marker in FIRST(p) and t in FOLLOW(A); a cell that no
\* production of A populates in this way is empty; and no cell has the
\* empty marker as its terminal.
C18_CellsJustified ==
    Built =>
        /\ \A c \in DOMAIN parse_table :
            /\ c[1] \in NTs
            /\ c[2] # EPS
            /\ parse_table[c] # None =>
                 \E j \in Alts(c[1]) :
                    /\ parse_table[c] = <<grammar[c[1]][j]>>
                    /\ \/ c[2] \in FirstAlt(c[1], j) /\ c[2] # EPS
                       \/ EPS \in FirstAlt(c[1], j) /\ c[2] \in follow_sets[c[1]]
            /\ Populating(c[1], c[2]) = {} => parse_table[c] = None
        /\ \A A \in NTs : \A t \in terminals : <<A, t>> \in DOMAIN parse_table

\* the finished table has a cell filled through FIRST, a cell filled
\* through FOLLOW by a nullable production, and an empty cell in a column
\* of the start symbol's FOLLOW set
C18_Witness ==
    /\ Built
    /\ \E A \in NTs : \E j \in Alts(A) :
        /\ EPS \in FirstAlt(A, j)
        /\ \E t \in follow_sets[A] : parse_table[<<A, t>>] = <<grammar[A][j]>>
        /\ \E t \in follow_sets[start_symbol] \ follow_sets[A] :
              parse_table[<<A, t>>] = None
    /\ \E A \in NTs : \E j \in Alts(A) : \E t \in FirstAlt(A, j) \ {EPS} :
        parse_table[<<A, t>>] = <<grammar[A][j]>>

\* C19: when parse_input returns accepted = true the whole input has been
\* consumed: the pointer is at the last position of the token list, the
\* appended end marker, and the stack holds only the end marker.
C19_AcceptConsumesAll ==
    Finished /\ accepted =>
        /\ pointer = Len(input_string) - 1
        /\ stack = <<END>>

\* C20: in every state of a parse_input run the stack is non-empty with
\* the end marker at its bottom, and the pointer is a position of the token
\* list with its appended end marker, so the stack top and the current
\* token can be read.
C20_StackAndPointerInRange ==
    pc = "parse" =>
        /\ Len(stack) >= 1
        /\ stack[1] = END
        /\ 0 <= pointer
        /\ pointer < Len(input_string)

\* a run over two or more typed tokens, none of them the end marker, has
\* left the loop with the pointer on the appended end marker, the last
\* position of the list, and the stack down to the end marker
C20_Witness ==
    /\ Finished
    /\ Len(input_string) >= 3
    /\ pointer = Len(input_string) - 1
    /\ stack = <<END>>
    /\ \A k \in 1..(Len(input_string) - 1) : input_string[k] # END

====
